---- MODULE Spec2Model ----
(***************************************************************************)
(* Resume analyzer: the heuristic scorer (analyzer.py), the skill matcher, *)
(* the analysis pipeline with its optional Gemini enrichment, and the      *)
(* Streamlit page that caches the last successful analysis (app.py).       *)
(*                                                                         *)
(* Python dicts are functions over string keys; a key that is absent from  *)
(* a dict is absent from the DOMAIN.  A Python call that may raise yields  *)
(* a record [raised, value]: raised = "" means it returned value.          *)
(* Floating-point scores are held exactly, as integers scaled by Scale.    *)
(***************************************************************************)
EXTENDS Integers, Sequences, FiniteSets, TLC

VARIABLES
    analysis,       \* the analysis record handed to generate_ats_score
    ats,            \* outcome of the last generate_ats_score call
    prev_ats,       \* outcome of the call before a skill was added
    text,           \* raw resume text handed to analyze_resume
    analyzed,       \* outcome of the last analyze_resume call
    re_engine,      \* the regex dialect of the interpreter running the code
    session_state,  \* st.session_state
    rendered,       \* the results _render_analysis drew in the current rerun
    run,            \* what the current rerun of the page did
    last_ok         \* history: result of the latest successful submission

vars == <<analysis, ats, prev_ats, text, analyzed, re_engine,
          session_state, rendered, run, last_ok>>

\* ------------------------------------------------------------------ bounds

\* word counts run from 0 to MaxWordCount, in steps of WordStep plus the
\* values next to the band's edges, midpoint and zero-award points
MaxWordCount == 1000
WordStep == 25
\* achievement counts 0..MaxAchievements (the cap is 4)
MaxAchievements == 5
\* years of experience 0..MaxExperience (the threshold is 1)
MaxExperience == 2
\* longest text handed to analyze_resume on its own
MaxTextLen == 4
\* longest text an uploaded file holds
MaxFileLen == 1

\* ------------------------------------------------------------------ helpers

Min(a, b) == IF a <= b THEN a ELSE b
Max(a, b) == IF a >= b THEN a ELSE b
Abs(a) == IF a >= 0 THEN a ELSE 0 - a

Returned(v) == [raised |-> "", value |-> v]
Raised(e) == [raised |-> e, value |-> 0]
NotCalled == [raised |-> "not called", value |-> 0]

EmptyDict == [k \in {} |-> 0]

\* F applied to the value of v, with v evaluated once: a local variable
With(v, F(_)) == CHOOSE r \in {F(x) : x \in {v}} : TRUE

\* ------------------------------------------------------------------ skills

PREDEFINED_SKILLS ==
    << "Python", "Java", "JavaScript", "SQL", "C++", "Project Management",
       "Data Analysis", "Machine Learning", "Deep Learning", "NLP",
       "Communication", "Leadership", "AWS", "Azure", "GCP", "Docker",
       "Kubernetes" >>

\* ------------------------------------------------------------------ ATS score

\* One score point, in the model's exact units: a multiple of both the
\* vocabulary size (skill coverage) and 20 (the 0.05 penalty slope).
Scale == Len(PREDEFINED_SKILLS) * 20

AnalysisKeys ==
    {"skills_found", "experience_level", "_word_count", "_quant_achievements"}

\* coverage computed from the vocabulary entries that were not found
SkillCoverageInverted(a) ==
    (55 * (Len(PREDEFINED_SKILLS) - Len(a["skills_found"])) * Scale)
        \div Len(PREDEFINED_SKILLS)

\* score += 55 * (len(analysis["skills_found"]) / len(PREDEFINED_SKILLS))
SkillCoverage(a) ==
    (55 * Len(a["skills_found"]) * Scale) \div Len(PREDEFINED_SKILLS)

\* score += min(analysis["_quant_achievements"], 4) * 5
AchievementBonus(a) == Min(a["_quant_achievements"], 4) * 5 * Scale

\* the length band with its lower edge excluded (300 < wc)
LengthBandNarrow(wc) ==
    IF 300 < wc /\ wc <= 800
    THEN 20 * Scale
    ELSE Max(0, 20 * Scale - Min(20 * Scale, Abs(wc - 550) * (Scale \div 20)))

\* the length band: 20 inside 300..800, else 20 - min(20, |wc - 550| * 0.05)
LengthBand(wc) ==
    IF 300 <= wc /\ wc <= 800
    THEN 20 * Scale
    ELSE Max(0, 20 * Scale - Min(20 * Scale, Abs(wc - 550) * (Scale \div 20)))

\* if analysis["experience_level"] >= 1: score += 5
ExperienceBonus(a) == IF a["experience_level"] >= 1 THEN 5 * Scale ELSE 0

\* the running sum `score` just before the return statement
WeightedSum(a) ==
    SkillCoverage(a) + AchievementBonus(a) + LengthBand(a["_word_count"])
        + ExperienceBonus(a)

\* max(0, min(100, score))
Clamp(s) == Max(0, Min(100 * Scale, s))

\* int(x) of a non-negative float: truncation
IntOf(s) == s \div Scale

\* The scorer with neither saturation guard: achievements uncapped and the
\* sum returned unclamped.
generate_ats_score_unguarded(a) ==
    IF AnalysisKeys \subseteq DOMAIN a
    THEN Returned(IntOf(SkillCoverage(a) + a["_quant_achievements"] * 5 * Scale
                        + LengthBand(a["_word_count"]) + ExperienceBonus(a)))
    ELSE Raised("KeyError")

\* Subscripting a dict with an absent key raises KeyError; the function has
\* no side effect, so which subscript raises first is not observable.
generate_ats_score(a) ==
    IF AnalysisKeys \subseteq DOMAIN a
    THEN Returned(IntOf(Clamp(WeightedSum(a))))
    ELSE Raised("KeyError")

\* ------------------------------------------------------------------ inputs

SkillsPrefix(n) == SubSeq(PREDEFINED_SKILLS, 1, n)

MkAnalysis(n, e, wc, q) ==
    [k \in AnalysisKeys |->
        CASE k = "skills_found" -> SkillsPrefix(n)
          [] k = "experience_level" -> e
          [] k = "_word_count" -> wc
          [] k = "_quant_achievements" -> q]

BandEdges == {150, 300, 550, 800, 950}

WordCounts ==
    {w \in 0..MaxWordCount :
        \/ w % WordStep = 0
        \/ \E b \in BandEdges : Abs(w - b) <= 1}

FullRecords ==
    {MkAnalysis(n, e, wc, q) :
        n \in 0..Len(PREDEFINED_SKILLS), e \in 0..MaxExperience,
        wc \in WordCounts, q \in 0..MaxAchievements}

Restrict(f, K) == [k \in K |-> f[k]]

\* records that lack one or more of the four fields
PartialRecords ==
    {Restrict(MkAnalysis(n, e, wc, q), K) :
        n \in {0, 1}, e \in {0, 1}, wc \in {0, 550}, q \in {0, 1},
        K \in (SUBSET AnalysisKeys) \ {AnalysisKeys}}

\* ------------------------------------------------------------------ text

\* Texts are sequences of one-character strings.
UpperCase ==
    << "A", "B", "C", "D", "E", "F", "G", "H", "I", "J", "K", "L", "M",
       "N", "O", "P", "Q", "R", "S", "T", "U", "V", "W", "X", "Y", "Z" >>

LowerCase ==
    << "a", "b", "c", "d", "e", "f", "g", "h", "i", "j", "k", "l", "m",
       "n", "o", "p", "q", "r", "s", "t", "u", "v", "w", "x", "y", "z" >>

Digits == {"0", "1", "2", "3", "4", "5", "6", "7", "8", "9"}

Range(f) == {f[i] : i \in DOMAIN f}

UpperSet == Range(UpperCase)

LowerOf == [ch \in UpperSet |->
               LowerCase[CHOOSE i \in DOMAIN UpperCase : UpperCase[i] = ch]]

\* str.lower() on one character
LowerChar(ch) == IF ch \in UpperSet THEN LowerOf[ch] ELSE ch

Lower(txt) == [i \in DOMAIN txt |-> LowerChar(txt[i])]

\* \s and \w of the re module
SpaceChars == {" ", "\t", "\n", "\r"}
WordChars == Range(UpperCase) \cup Range(LowerCase) \cup Digits \cup {"_"}

IsSpace(ch) == ch \in SpaceChars
IsWord(ch) == ch \in WordChars

\* the characters of each vocabulary entry, as the f-string splices them
\* into the pattern
SkillChars(s) ==
    CASE s = "Python" -> << "P", "y", "t", "h", "o", "n" >>
      [] s = "Java" -> << "J", "a", "v", "a" >>
      [] s = "JavaScript" ->
            << "J", "a", "v", "a", "S", "c", "r", "i", "p", "t" >>
      [] s = "SQL" -> << "S", "Q", "L" >>
      [] s = "C++" -> << "C", "+", "+" >>
      [] s = "Project Management" ->
            << "P", "r", "o", "j", "e", "c", "t", " ",
               "M", "a", "n", "a", "g", "e", "m", "e", "n", "t" >>
      [] s = "Data Analysis" ->
            << "D", "a", "t", "a", " ", "A", "n", "a", "l", "y", "s", "i", "s" >>
      [] s = "Machine Learning" ->
            << "M", "a", "c", "h", "i", "n", "e", " ",
               "L", "e", "a", "r", "n", "i", "n", "g" >>
      [] s = "Deep Learning" ->
            << "D", "e", "e", "p", " ", "L", "e", "a", "r", "n", "i", "n", "g" >>
      [] s = "NLP" -> << "N", "L", "P" >>
      [] s = "Communication" ->
            << "C", "o", "m", "m", "u", "n", "i", "c", "a", "t", "i", "o", "n" >>
      [] s = "Leadership" ->
            << "L", "e", "a", "d", "e", "r", "s", "h", "i", "p" >>
      [] s = "AWS" -> << "A", "W", "S" >>
      [] s = "Azure" -> << "A", "z", "u", "r", "e" >>
      [] s = "GCP" -> << "G", "C", "P" >>
      [] s = "Docker" -> << "D", "o", "c", "k", "e", "r" >>
      [] s = "Kubernetes" ->
            << "K", "u", "b", "e", "r", "n", "e", "t", "e", "s" >>

\* sorted(PREDEFINED_SKILLS): the order sorted() gives the matches
SortedSkills ==
    << "AWS", "Azure", "C++", "Communication", "Data Analysis",
       "Deep Learning", "Docker", "GCP", "Java", "JavaScript", "Kubernetes",
       "Leadership", "Machine Learning", "NLP", "Project Management",
       "Python", "SQL" >>

\* ------------------------------------------------------------------ regex

\* The interpreter's regex dialect.  "possessive": x++ is a possessive
\* quantifier (re of Python 3.11 and later).  "legacy": a quantifier after a
\* quantifier is rejected with re.error "multiple repeat" (Python <= 3.10).
ReEngines == {"possessive", "legacy"}

\* The pattern is the skill's characters, unescaped: "+" is a quantifier.
\* Compiled items are [ch, rep], rep one of "one", "greedy", "possessive".
RECURSIVE ParseItems(_, _, _)
ParseItems(cs, i, eng) ==
    IF i > Len(cs) THEN Returned(<< >>)
    ELSE IF cs[i] = "+" THEN Raised("re.error")
    ELSE
        LET plus1 == i + 1 <= Len(cs) /\ cs[i + 1] = "+"
            plus2 == plus1 /\ i + 2 <= Len(cs) /\ cs[i + 2] = "+"
            rep == IF plus2 THEN "possessive"
                   ELSE IF plus1 THEN "greedy" ELSE "one"
            next == IF plus2 THEN i + 3 ELSE IF plus1 THEN i + 2 ELSE i + 1
            rest == ParseItems(cs, next, eng)
        IN  IF plus2 /\ eng = "legacy" THEN Raised("re.error")
            ELSE IF rest.raised # "" THEN rest
            ELSE Returned(<< [ch |-> cs[i], rep |-> rep] >> \o rest.value)

\* re.compile(rf"(?i)\b{s}\b"): the items between the two \b
CompileSkill(s, eng) == ParseItems(SkillChars(s), 1, eng)

\* the compiled pattern of every vocabulary entry, per dialect
Patterns ==
    [eng \in ReEngines |->
        [s \in Range(PREDEFINED_SKILLS) |-> CompileSkill(s, eng)]]

\* (?i): characters compare case-insensitively
CharEq(a, b) == LowerChar(a) = LowerChar(b)

\* \b at offset p (between txt[p] and txt[p+1])
WordAt(txt, p) == p >= 1 /\ p <= Len(txt) /\ IsWord(txt[p])
Boundary(txt, p) == WordAt(txt, p) # WordAt(txt, p + 1)

\* how many consecutive characters from offset p equal ch
RECURSIVE RunLen(_, _, _)
RunLen(txt, p, ch) ==
    IF p + 1 <= Len(txt) /\ CharEq(txt[p + 1], ch)
    THEN 1 + RunLen(txt, p + 1, ch)
    ELSE 0

\* the offsets at which items k.. can end when matched from offset p
RECURSIVE MatchEnds(_, _, _, _)
MatchEnds(items, k, txt, p) ==
    IF k > Len(items) THEN {p}
    ELSE
        LET it == items[k]
            n == RunLen(txt, p, it.ch)
        IN  CASE it.rep = "one" ->
                    IF n >= 1 THEN MatchEnds(items, k + 1, txt, p + 1) ELSE {}
              [] it.rep = "possessive" ->
                    IF n >= 1 THEN MatchEnds(items, k + 1, txt, p + n) ELSE {}
              [] it.rep = "greedy" ->
                    UNION {MatchEnds(items, k + 1, txt, p + r) : r \in 1..n}

\* re.search(r"\b<items>\b", txt) finds a match
Search(items, txt) ==
    \E p \in 0..Len(txt) :
        /\ Boundary(txt, p)
        /\ \E e \in MatchEnds(items, 1, txt, p) : Boundary(txt, e)

\* ------------------------------------------------------------------ analysis

\* re.sub(r"\s+", " ", text): every run of whitespace becomes one space
RECURSIVE CollapseSpace(_)
CollapseSpace(txt) ==
    IF txt = << >> THEN << >>
    ELSE IF IsSpace(Head(txt))
    THEN IF Len(txt) >= 2 /\ IsSpace(txt[2])
         THEN CollapseSpace(Tail(txt))
         ELSE << " " >> \o CollapseSpace(Tail(txt))
    ELSE << Head(txt) >> \o CollapseSpace(Tail(txt))

\* str.strip()
RECURSIVE Strip(_)
Strip(txt) ==
    IF txt = << >> THEN << >>
    ELSE IF IsSpace(Head(txt)) THEN Strip(Tail(txt))
    ELSE IF IsSpace(txt[Len(txt)]) THEN Strip(SubSeq(txt, 1, Len(txt) - 1))
    ELSE txt

_normalize_text(txt) == Strip(CollapseSpace(txt))

\* len(normalized.split()): the number of maximal runs of non-whitespace
WordCount(txt) ==
    Cardinality({i \in DOMAIN txt :
        /\ ~IsSpace(txt[i])
        /\ (i = 1 \/ IsSpace(txt[i - 1]))})

\* The set comprehension compiles one pattern per vocabulary entry; a
\* pattern the engine rejects raises out of _find_skills.
_find_skills(txt, eng) ==
    IF \E s \in Range(PREDEFINED_SKILLS) : Patterns[eng][s].raised # ""
    THEN Raised("re.error")
    ELSE Returned(SelectSeq(SortedSkills,
            LAMBDA s : Search(Patterns[eng][s].value, txt)))

\* Each of the three patterns needs a digit (\d{1,2}); with none, candidates
\* stays empty and the function returns 0.0.  The texts built from Alphabet
\* carry no digit.
_parse_years_of_experience(txt) == 0

\* Each of the three findall patterns needs a digit; with none every count
\* is 0.  The texts built from Alphabet carry no digit.
_detect_quantifiable_achievements(txt) == 0

analyze_resume(resume_text, eng) ==
    With(_normalize_text(resume_text), LAMBDA normalized :
    With(Lower(normalized), LAMBDA lc :
    With(_find_skills(lc, eng), LAMBDA skills :
        IF skills.raised # "" THEN Raised(skills.raised)
        ELSE Returned(
            [k \in AnalysisKeys |->
                CASE k = "skills_found" -> skills.value
                  [] k = "experience_level" -> _parse_years_of_experience(lc)
                  [] k = "_word_count" -> WordCount(normalized)
                  [] k = "_quant_achievements" ->
                        _detect_quantifiable_achievements(lc)]))))

Alphabet == {"c", "C", "+", " ", "x"}

RECURSIVE TextsOfLen(_)
TextsOfLen(n) ==
    IF n = 0 THEN {<< >>}
    ELSE {Append(t, ch) : t \in TextsOfLen(n - 1), ch \in Alphabet}

Texts(maxlen) == UNION {TextsOfLen(n) : n \in 0..maxlen}

\* ------------------------------------------------------------------ scorer

NoFile == [readable |-> FALSE, content |-> << >>]

\* what one rerun of the page did: how it was triggered, the file submitted,
\* the pipeline's result if it ran, the calls it made, the st.error
\* messages shown and the Gemini model selected
Rerun(kind, file, result, calls, errors, model) ==
    [kind |-> kind, file |-> file, result |-> result, calls |-> calls,
     errors |-> errors, model |-> model]

IdleRun == Rerun("idle", NoFile, << >>, << >>, << >>, "")

PageIdle ==
    /\ session_state = EmptyDict
    /\ rendered = << >>
    /\ run = IdleRun
    /\ last_ok = << >>

InitScore ==
    /\ analysis \in FullRecords \cup PartialRecords
    /\ ats = NotCalled
    /\ prev_ats = NotCalled
    /\ text = << >>
    /\ analyzed = NotCalled
    /\ re_engine = "possessive"
    /\ PageIdle

\* score = generate_ats_score(analysis)
Score ==
    /\ ats.raised = "not called"
    /\ ats' = generate_ats_score(analysis)
    /\ UNCHANGED <<analysis, prev_ats, text, analyzed, re_engine,
                   session_state, rendered, run, last_ok>>

\* the same record with one more entry in skills_found, scored again
AddSkill ==
    /\ ats.raised = ""
    /\ prev_ats.raised = "not called"
    /\ Len(analysis["skills_found"]) < Len(PREDEFINED_SKILLS)
    /\ analysis' = [analysis EXCEPT !["skills_found"] =
                        Append(@, PREDEFINED_SKILLS[Len(@) + 1])]
    /\ prev_ats' = ats
    /\ ats' = generate_ats_score(analysis')
    /\ UNCHANGED <<text, analyzed, re_engine,
                   session_state, rendered, run, last_ok>>

NextScore == Score \/ AddSkill

SpecScore == InitScore /\ [][NextScore]_vars

\* ------------------------------------------------------------------ analyzer

InitSkills ==
    /\ text \in Texts(MaxTextLen)
    /\ re_engine \in ReEngines
    /\ analyzed = NotCalled
    /\ analysis = EmptyDict
    /\ ats = NotCalled
    /\ prev_ats = NotCalled
    /\ PageIdle

\* analysis = analyze_resume(resume_text)
Analyze ==
    /\ analyzed.raised = "not called"
    /\ analyzed' = analyze_resume(text, re_engine)
    /\ UNCHANGED <<analysis, ats, prev_ats, text, re_engine,
                   session_state, rendered, run, last_ok>>

\* ats_score = generate_ats_score(analysis)
ScoreAnalyzed ==
    /\ analyzed.raised = ""
    /\ ats.raised = "not called"
    /\ analysis' = analyzed.value
    /\ ats' = generate_ats_score(analyzed.value)
    /\ UNCHANGED <<prev_ats, text, analyzed, re_engine,
                   session_state, rendered, run, last_ok>>

NextSkills == Analyze \/ ScoreAnalyzed

SpecSkills == InitSkills /\ [][NextSkills]_vars

\* ------------------------------------------------------------------ claims

Scored == ats.raised # "not called"
FullRecord == AnalysisKeys \subseteq DOMAIN analysis

\* C1: generate_ats_score of any record that has its four fields returns an
\* integer between 0 and 100.
C1_ScoreInRange ==
    (Scored /\ FullRecord) => (ats.raised = "" /\ ats.value \in 0..100)

C1_Witness ==
    /\ Scored /\ FullRecord
    /\ analysis["_quant_achievements"] > 4
    /\ Len(analysis["skills_found"]) = Len(PREDEFINED_SKILLS)
    /\ ats = Returned(100)

\* the length band as the claim states it: distance is measured from the
\* nearer edge of the band 300..800
ClaimedLengthBand(wc) ==
    LET distance == IF wc < 300 THEN 300 - wc ELSE wc - 800
    IN  IF 300 <= wc /\ wc <= 800
        THEN 20 * Scale
        ELSE Max(0, 20 * Scale - Min(20 * Scale, distance * (Scale \div 20)))

\* C2: the length-band sub-score of a scored record is 20 inside 300..800
\* and max(0, 20 - min(20, distance * 0.05)) outside it, distance being the
\* shortfall below 300 or the excess above 800; the returned score is the
\* one that sub-score gives.
C2_LengthBandFromEdge ==
    (Scored /\ FullRecord) =>
        /\ LengthBand(analysis["_word_count"])
             = ClaimedLengthBand(analysis["_word_count"])
        /\ ats = Returned(IntOf(Clamp(
                SkillCoverage(analysis) + AchievementBonus(analysis)
                + ClaimedLengthBand(analysis["_word_count"])
                + ExperienceBonus(analysis))))

\* round(): to the nearest integer, a fraction above one half going up, one
\* below it going down, exactly one half going to the even neighbour
RoundNearest(s) ==
    LET q == s \div Scale
        r == s % Scale
    IN  IF 2 * r > Scale THEN q + 1
        ELSE IF 2 * r < Scale THEN q
        ELSE IF q % 2 = 0 THEN q ELSE q + 1

\* C3: the returned score is the clamped weighted sum rounded to the nearest
\* integer.
C3_Rounded ==
    (Scored /\ FullRecord) =>
        ats = Returned(RoundNearest(Clamp(WeightedSum(analysis))))

\* a record's absent fields filled in with their zero values
ZeroFilled(a) ==
    [k \in AnalysisKeys |->
        IF k \in DOMAIN a THEN a[k]
        ELSE IF k = "skills_found" THEN << >> ELSE 0]

\* C4: generate_ats_score never fails on a record with absent fields: it
\* returns the score of the record with each absent field at its zero value,
\* an integer between 0 and 100.
C4_MissingFieldsDefault ==
    Scored =>
        /\ ats.raised = ""
        /\ ats.value \in 0..100
        /\ ats = generate_ats_score(ZeroFilled(analysis))

\* C7: a record with one more entry in skills_found, all else equal, never
\* scores lower.
C7_SkillMonotone ==
    (prev_ats.raised = "" /\ ats.raised = "") => ats.value >= prev_ats.value

C7_Witness ==
    /\ prev_ats.raised = "" /\ ats.raised = ""
    /\ Len(analysis["skills_found"]) = Len(PREDEFINED_SKILLS)
    /\ ats.value > prev_ats.value

\* C9: no skills, no achievements, no experience and a word count inside
\* 300..800 score exactly 20.
C9_BandOnlyScore ==
    ( /\ Scored /\ FullRecord
      /\ analysis["skills_found"] = << >>
      /\ analysis["_quant_achievements"] = 0
      /\ analysis["experience_level"] = 0
      /\ analysis["_word_count"] \in 300..800 )
    => ats = Returned(20)

C9_Witness ==
    /\ Scored /\ FullRecord
    /\ analysis["skills_found"] = << >>
    /\ analysis["_quant_achievements"] = 0
    /\ analysis["experience_level"] = 0
    /\ analysis["_word_count"] = 550
    /\ ats = Returned(20)

\* the text contains the three characters c, +, + in a row, in either case
ContainsLiteralCpp(txt) ==
    \E i \in 1..(Len(txt) - 2) :
        /\ LowerChar(txt[i]) = "c"
        /\ txt[i + 1] = "+"
        /\ txt[i + 2] = "+"

InSeq(x, seq) == \E i \in DOMAIN seq : seq[i] = x

\* C8: the pattern for "C++" always compiles, and "C++" is reported exactly
\* for the texts that contain the literal characters "c++" in either case.
C8_CppLiteral ==
    (analyzed.raised # "not called") =>
        /\ analyzed.raised = ""
        /\ InSeq("C++", analyzed.value["skills_found"])
             <=> ContainsLiteralCpp(text)

\* ------------------------------------------------------------------ Gemini

\* Each call returns [value, errors, calls, model]: the mapping returned,
\* the st.error messages shown, the client calls made, the model selected.
GeminiMissingKey == "GEMINI_API_KEY missing in environment variables."
GeminiNoModels ==
    "No models supporting generateContent are available for this API key."
GeminiInvalidJson == "Gemini returned invalid JSON."
GeminiApiError == "Gemini API Error"

preferred_order ==
    << "gemini-2.0-flash", "gemini-2.0-pro", "gemini-1.5-pro",
       "gemini-1.5-flash" >>

\* A listed model: its name and the one attribute that carries its actions.
Model(name, attr, actions) ==
    [name |-> name, attr |-> attr, actions |-> actions]

\* hasattr(m, "supported_actions") / hasattr(m, "supportedGenerationMethods")
ActionsOf(m) ==
    IF m.attr \in {"supported_actions", "supportedGenerationMethods"}
    THEN m.actions
    ELSE {}

Names(ms) == [i \in DOMAIN ms |-> ms[i].name]

\* what client.models.list() may yield
ModelLists ==
    { << >>,
      << Model("embedding-001", "supported_actions", {"embedContent"}) >>,
      << Model("tuned-model", "none", {"generateContent"}) >>,
      << Model("tuned-model", "supported_actions", {"generateContent"}) >>,
      << Model("gemini-1.5-flash", "supportedGenerationMethods",
               {"generateContent"}),
         Model("gemini-2.0-flash", "supported_actions",
               {"generateContent", "countTokens"}) >>,
      << Model("tuned-model", "supported_actions", {"generateContent"}),
         Model("gemini-1.5-pro", "supported_actions", {"generateContent"}),
         Model("gemini-2.0-pro", "none", {}) >> }

\* response.text values: a JSON object, the empty JSON object, a JSON object
\* after a line of prose, no text at all
ResponseTexts == {"{\"summaryParagraph\": \"s\"}", "{}", "Here is the JSON: {}", "None"}

\* json.loads on those values
json_loads(output) ==
    CASE output = "{\"summaryParagraph\": \"s\"}" ->
            Returned([k \in {"summaryParagraph"} |-> "s"])
      [] output = "{}" -> Returned(EmptyDict)
      [] output = "None" -> Raised("TypeError")
      [] OTHER -> Raised("JSONDecodeError")

\* The environment of one call: whether GEMINI_API_KEY is set, what
\* models.list() does and what generate_content() does.
GeminiEnvs ==
    { [api_key |-> FALSE, list |-> Raised("unused"), generate |-> Raised("unused")],
      [api_key |-> TRUE, list |-> Raised("APIError"), generate |-> Raised("unused")] }
    \cup
    { [api_key |-> TRUE, list |-> Returned(ms), generate |-> g] :
        ms \in ModelLists,
        g \in {Raised("APIError")} \cup {Returned(t) : t \in ResponseTexts} }

GeminiResult(v, errs, calls, model) ==
    [value |-> v, errors |-> errs, calls |-> calls, model |-> model]

generate_gemini_recommendations(resume_text, env) ==
    IF ~env.api_key
    THEN Returned(GeminiResult(EmptyDict, << GeminiMissingKey >>, << >>, ""))
    ELSE IF env.list.raised # ""
    THEN Returned(GeminiResult(EmptyDict, << GeminiApiError >>,
                               << "models.list" >>, ""))
    ELSE
        LET listed == env.list.value
            available_models == Names(SelectSeq(listed,
                LAMBDA m : "generateContent" \in ActionsOf(m)))
            preferred_available ==
                SelectSeq(preferred_order, LAMBDA n : InSeq(n, available_models))
            selected_model ==
                IF preferred_available # << >>
                THEN Head(preferred_available)
                ELSE Head(available_models)
            parsed == json_loads(env.generate.value)
        IN  IF available_models = << >>
            THEN Returned(GeminiResult(EmptyDict, << GeminiNoModels >>,
                                       << "models.list" >>, ""))
            ELSE IF env.generate.raised # ""
            THEN Returned(GeminiResult(EmptyDict, << GeminiApiError >>,
                    << "models.list", "models.generate_content" >>,
                    selected_model))
            ELSE IF parsed.raised = "JSONDecodeError"
            THEN Returned(GeminiResult(EmptyDict, << GeminiInvalidJson >>,
                    << "models.list", "models.generate_content" >>,
                    selected_model))
            ELSE IF parsed.raised # ""
            THEN Returned(GeminiResult(EmptyDict, << GeminiApiError >>,
                    << "models.list", "models.generate_content" >>,
                    selected_model))
            ELSE Returned(GeminiResult(parsed.value, << >>,
                    << "models.list", "models.generate_content" >>,
                    selected_model))

\* ------------------------------------------------------------------ pipeline

\* analyze_resume is pure: its outcome on every text a file can hold,
\* tabulated once per regex dialect.
AnalyzedTexts ==
    [eng \in ReEngines |->
        [t \in Texts(MaxFileLen) |-> analyze_resume(t, eng)]]

analyze_resume_of(resume_text, eng) ==
    IF resume_text \in DOMAIN AnalyzedTexts[eng]
    THEN AnalyzedTexts[eng][resume_text]
    ELSE analyze_resume(resume_text, eng)

\* An uploaded file: whether the extractor can read it, and the text it
\* holds.
Files ==
    {[readable |-> TRUE, content |-> t] : t \in Texts(MaxFileLen)}
    \cup {[readable |-> FALSE, content |-> << >>]}

\* pdf_parser.extract_text_from_file: the text, or TextExtractionError
extract_text_from_file(uploaded_file) ==
    IF uploaded_file.readable
    THEN Returned(uploaded_file.content)
    ELSE Raised("TextExtractionError")

\* bool(ai_output) of a dict
Truthy(d) == DOMAIN d # {}

Failure(msg) == [success |-> FALSE, error_message |-> msg]

Success(resume_text, a, score, ai_output) ==
    [success |-> TRUE, resume_text |-> resume_text, basic_analysis |-> a,
     ats_score |-> score, ai_recommendations |-> ai_output,
     ai_available |-> Truthy(ai_output)]

\* [result, calls, errors, model] of one run
PipelineRun(result, calls, errors, model) ==
    [result |-> result, calls |-> calls, errors |-> errors, model |-> model]

CallsUpTo(n) ==
    SubSeq(<< "extract_text_from_file", "analyze_resume",
              "generate_ats_score", "generate_gemini_recommendations" >>, 1, n)

\* the same pipeline, falling back to an empty text when extraction fails
full_analysis_pipeline_fallback(uploaded_file, env, eng) ==
    With(extract_text_from_file(uploaded_file), LAMBDA ex :
    With(IF ex.raised = "" THEN ex.value ELSE << >>, LAMBDA resume_text :
    With(analyze_resume_of(resume_text, eng), LAMBDA a :
        IF a.raised # ""
        THEN PipelineRun(Failure(a.raised), CallsUpTo(2), << >>, "")
        ELSE
    With(generate_ats_score(a.value), LAMBDA sc :
    With(generate_gemini_recommendations(resume_text, env), LAMBDA ai :
        PipelineRun(Success(resume_text, a.value, sc.value, ai.value.value),
                    CallsUpTo(4), ai.value.errors, ai.value.model))))))

\* Every statement sits in one try block: the first call that raises ends
\* the run with a failure result that carries the exception's message.
full_analysis_pipeline(uploaded_file, env, eng) ==
    With(extract_text_from_file(uploaded_file), LAMBDA ex :
        IF ex.raised # ""
        THEN PipelineRun(Failure(ex.raised), CallsUpTo(1), << >>, "")
        ELSE
    With(analyze_resume_of(ex.value, eng), LAMBDA a :
        IF a.raised # ""
        THEN PipelineRun(Failure(a.raised), CallsUpTo(2), << >>, "")
        ELSE
    With(generate_ats_score(a.value), LAMBDA sc :
        IF sc.raised # ""
        THEN PipelineRun(Failure(sc.raised), CallsUpTo(3), << >>, "")
        ELSE
    With(generate_gemini_recommendations(ex.value, env), LAMBDA ai :
        IF ai.raised # ""
        THEN PipelineRun(Failure(ai.raised), CallsUpTo(4), << >>, "")
        ELSE PipelineRun(Success(ex.value, a.value, sc.value, ai.value.value),
                         CallsUpTo(4), ai.value.errors, ai.value.model)))))

\* ------------------------------------------------------------------ page

\* st.session_state[key] = value
Put(ss, key, value) ==
    [k \in DOMAIN ss \cup {key} |-> IF k = key THEN value ELSE ss[k]]

UploadFirst == "Please upload a resume file before clicking Analyze."
AnalysisFailed == "Analysis failed"

\* the same steps with the result cached before its success flag is read
page_after_pipeline_save_first(ss, pr) ==
    IF ~pr.result.success
    THEN [session_state |-> Put(ss, "last_analysis", pr.result),
          rendered |-> << >>,
          errors |-> pr.errors \o << AnalysisFailed >>]
    ELSE [session_state |-> Put(ss, "last_analysis", pr.result),
          rendered |-> << pr.result >>,
          errors |-> pr.errors]

\* page_resume_analyzer once the pipeline has returned: a failure result is
\* reported and the rerun ends; a success is cached, then rendered.
page_after_pipeline(ss, pr) ==
    IF ~pr.result.success
    THEN [session_state |-> ss,
          rendered |-> << >>,
          errors |-> pr.errors \o << AnalysisFailed >>]
    ELSE [session_state |-> Put(ss, "last_analysis", pr.result),
          rendered |-> << pr.result >>,
          errors |-> pr.errors]

Init ==
    /\ re_engine \in ReEngines
    /\ PageIdle
    /\ analysis = EmptyDict
    /\ ats = NotCalled
    /\ prev_ats = NotCalled
    /\ text = << >>
    /\ analyzed = NotCalled

ScorerIdle == UNCHANGED <<analysis, ats, prev_ats, text, analyzed, re_engine>>

\* a rerun in which the form was not submitted: the cached analysis, if
\* any, is rendered again
RerunNoSubmit ==
    /\ rendered' = IF "last_analysis" \in DOMAIN session_state
                   THEN << session_state["last_analysis"] >>
                   ELSE << >>
    /\ run' = Rerun("no_submit", NoFile, << >>, << >>, << >>, "")
    /\ UNCHANGED <<session_state, last_ok>>
    /\ ScorerIdle

\* the form submitted with no file chosen
SubmitNoFile ==
    /\ rendered' = << >>
    /\ run' = Rerun("no_file", NoFile, << >>, << >>, << UploadFirst >>, "")
    /\ UNCHANGED <<session_state, last_ok>>
    /\ ScorerIdle

\* the form submitted with a file
SubmitFile ==
    \E uploaded_file \in Files, env \in GeminiEnvs :
    \E pr \in {full_analysis_pipeline(uploaded_file, env, re_engine)} :
    \E out \in {page_after_pipeline(session_state, pr)} :
            /\ session_state' = out.session_state
            /\ rendered' = out.rendered
            /\ run' = Rerun("submit", uploaded_file, << pr.result >>,
                            pr.calls, out.errors, pr.model)
            /\ last_ok' = IF pr.result.success THEN << pr.result >> ELSE last_ok
            /\ ScorerIdle

Next == RerunNoSubmit \/ SubmitNoFile \/ SubmitFile

Spec == Init /\ [][Next]_vars

\* ------------------------------------------------------------------ claims

GeminiFailureMessages ==
    {GeminiMissingKey, GeminiNoModels, GeminiInvalidJson, GeminiApiError}

\* C5: when extraction succeeds the pipeline returns success = True with
\* the analysis record and the score, whatever the enrichment step did; if
\* the enrichment step failed, the enrichment mapping is empty and
\* ai_available is False.
C5_EnrichmentIsolated ==
    (run.kind = "submit" /\ run.file.readable) =>
        LET r == run.result[1]
            a == analyze_resume(run.file.content, "possessive").value
        IN  /\ r.success
            /\ r.basic_analysis = a
            /\ r.ats_score = generate_ats_score(a).value
            /\ (Range(run.errors) \cap GeminiFailureMessages # {}) =>
                    (r.ai_recommendations = EmptyDict /\ ~r.ai_available)

\* C6: when extraction fails the pipeline makes no call after
\* extract_text_from_file and returns success = False with an error message.
C6_ExtractionShortCircuit ==
    (run.kind = "submit" /\ ~run.file.readable) =>
        /\ run.calls = << "extract_text_from_file" >>
        /\ run.result[1].success = FALSE
        /\ run.result[1].error_message = "TextExtractionError"

C6_Witness ==
    /\ run.kind = "submit" /\ ~run.file.readable
    /\ run.calls = << "extract_text_from_file" >>
    /\ run.result = << Failure("TextExtractionError") >>

\* C10: the cached last_analysis is absent until a submission succeeds and
\* afterwards is the successful result of the latest successful submission;
\* a submission with no file or a failed one renders nothing.
C10_CacheHoldsLastSuccess ==
    /\ IF "last_analysis" \in DOMAIN session_state
       THEN /\ session_state["last_analysis"].success
            /\ last_ok = << session_state["last_analysis"] >>
       ELSE last_ok = << >>
    /\ (run.kind = "no_file" => rendered = << >>)
    /\ (run.kind = "submit" /\ ~run.result[1].success => rendered = << >>)

C10_Witness ==
    /\ run.kind = "submit"
    /\ ~run.result[1].success
    /\ rendered = << >>
    /\ "last_analysis" \in DOMAIN session_state
    /\ last_ok = << session_state["last_analysis"] >>

====
